---------------------------- MODULE Spec2Model ----------------------------
(***************************************************************************)
(* Kana normalisation and katakana -> romaji transliteration of            *)
(* plugins/organizer_plugin.py (_to_zen_katakana, _kata_to_romaji).        *)
(*                                                                         *)
(* A Python str is a sequence of code points (integers); None is the       *)
(* one-element sequence holding the impossible code point -1.  A dict is a *)
(* function whose domain is a set of strings.  The cursor i is 0-based as  *)
(* in the source.                                                          *)
(***************************************************************************)
EXTENDS Integers, Sequences, FiniteSets, TLC

VARIABLES
    \* one call of _to_zen_katakana or _kata_to_romaji
    call, text, s, i, res, pc, result, prev,
    \* the mapping tables, shared by every call
    digraphs, mono,
    \* history: dict accesses and loop iterations of the call
    lookups, iters,
    \* the frames of concurrent _kata_to_romaji calls
    frames,
    \* ShellApp and its plugin instances
    current_plugin, plugins, mounted, unmounts, ops

vars == <<call, text, s, i, res, pc, result, prev, digraphs, mono, lookups,
          iters, frames, current_plugin, plugins, mounted, unmounts, ops>>

\* the state of the shell, and of whatever runs beside a single call
shellvars == <<current_plugin, plugins, mounted, unmounts, ops>>
beside == <<frames, current_plugin, plugins, mounted, unmounts, ops>>

-----------------------------------------------------------------------------
(* Bounds *)

MaxLen == 3

-----------------------------------------------------------------------------
(* Code points named in the source *)

HIRA_FIRST == 12353   \* 0x3041
HIRA_LAST == 12438    \* 0x3096
KATA_SHIFT == 96      \* 0x60
KATA_FIRST == 12448   \* 0x30A0
KATA_LAST == 12543    \* 0x30FF
SmallTsu == 12483     \* "ッ" U+30C3
LongMark == 12540     \* "ー" U+30FC
MoraicN == 12531      \* "ン" U+30F3
Hyphen == 45          \* "-"

(* Further code points of the input alphabets *)
Ch == [ A    |-> 12450,   \* ア U+30A2
        KA   |-> 12459,   \* カ U+30AB
        GA   |-> 12460,   \* ガ U+30AC
        KI   |-> 12461,   \* キ U+30AD
        YAs  |-> 12515,   \* ャ U+30E3
        WA   |-> 12527,   \* ワ U+30EF
        VA   |-> 12535,   \* ヷ U+30F7
        hA   |-> 12354,   \* あ U+3042
        hKA  |-> 12363,   \* か U+304B
        hGA  |-> 12364,   \* が U+304C
        hWA  |-> 12431,   \* わ U+308F
        DAKU |-> 12441,   \* combining voiced sound mark U+3099
        hwKA |-> 65398,   \* half-width ｶ U+FF76
        hwDAKU |-> 65438, \* half-width voiced sound mark U+FF9E
        fwHYPHEN |-> 65293, \* full-width hyphen-minus U+FF0D
        LatA |-> 65 ]     \* "A"

(* ASCII letters used in romanisation fragments *)
L == [ a |-> 97, c |-> 99, e |-> 101, h |-> 104, i |-> 105, j |-> 106,
       k |-> 107, n |-> 110, o |-> 111, s |-> 115, t |-> 116, u |-> 117,
       y |-> 121, K |-> 75, N |-> 78, apos |-> 39 ]

None == << -1 >>
KeyError == << -2 >>

-----------------------------------------------------------------------------
(* Python string and dict primitives *)

Range(f) == { f[x] : x \in DOMAIN f }

Min(a, b) == IF a < b THEN a ELSE b

\* s[a:b] for 0 <= a, 0 <= b
Slice(str, a, b) == SubSeq(str, a + 1, Min(b, Len(str)))

\* s[k]
At(str, k) == str[k + 1]

\* "".join(frags)
RECURSIVE JoinFrags(_)
JoinFrags(frags) ==
    IF frags = << >> THEN << >> ELSE Head(frags) \o JoinFrags(Tail(frags))

\* str.startswith(prefix)
StartsWith(str, prefix) ==
    Len(str) >= Len(prefix) /\ SubSeq(str, 1, Len(prefix)) = prefix

\* str.endswith(v) for a one-character v
EndsWith(str, v) == Len(str) >= 1 /\ str[Len(str)] = v

\* d[k]: raises KeyError for a missing key
DictIndex(d, k) == IF k \in DOMAIN d THEN d[k] ELSE KeyError

\* d.get(k, default); d.get(k) is d.get(k, None)
DictGetRaising(d, k, default) == DictIndex(d, k)

DictGet(d, k, default) == IF k \in DOMAIN d THEN d[k] ELSE default

\* str.replace("-", "")
RemoveHyphensNot(str) == str

RemoveHyphens(str) == SelectSeq(str, LAMBDA c : c # Hyphen)

IsUpper(c) == 65 <= c /\ c <= 90
IsLower(c) == 97 <= c /\ c <= 122

\* str.lower(): of the alphabets' characters only A-Z are cased
LowerChar(c) == IF IsUpper(c) THEN c + 32 ELSE c
UpperChar(c) == IF IsLower(c) THEN c - 32 ELSE c

Lower(str) == [k \in 1..Len(str) |-> LowerChar(str[k])]

\* str.capitalize(): first character upper-cased, the rest lower-cased
CapitalizeNot(str) == str

Capitalize(str) ==
    [k \in 1..Len(str) |-> IF k = 1 THEN UpperChar(str[k]) ELSE LowerChar(str[k])]

-----------------------------------------------------------------------------
(* unicodedata.normalize("NFKC", .) on the alphabets of the model:          *)
(* compatibility decomposition, then canonical composition.  The only      *)
(* combining mark is U+3099 (class 8), so canonical reordering is the      *)
(* identity and a mark that follows an uncomposed mark is blocked.         *)

Decomposition(c) ==
    CASE c = Ch.hwKA     -> << Ch.KA >>
      [] c = Ch.hwDAKU   -> << Ch.DAKU >>
      [] c = Ch.fwHYPHEN -> << Hyphen >>
      [] c = Ch.GA       -> << Ch.KA, Ch.DAKU >>
      [] c = Ch.hGA      -> << Ch.hKA, Ch.DAKU >>
      [] c = Ch.VA       -> << Ch.WA, Ch.DAKU >>
      [] OTHER           -> << c >>

\* the primary composite of base b and mark m, 0 when there is none
Composite(b, m) ==
    IF m # Ch.DAKU THEN 0
    ELSE CASE b = Ch.KA  -> Ch.GA
           [] b = Ch.hKA -> Ch.hGA
           [] b = Ch.WA  -> Ch.VA
           [] OTHER      -> 0

RECURSIVE Decompose(_)
Decompose(str) ==
    IF str = << >> THEN << >>
    ELSE Decomposition(Head(str)) \o Decompose(Tail(str))

RECURSIVE Compose(_, _)
Compose(out, rest) ==
    IF rest = << >> THEN out
    ELSE LET c == Head(rest)
             n == Len(out)
         IN  IF n > 0 /\ Composite(out[n], c) # 0
             THEN Compose([out EXCEPT ![n] = Composite(out[n], c)], Tail(rest))
             ELSE Compose(Append(out, c), Tail(rest))

NFKC(str) == Compose(<< >>, Decompose(str))

-----------------------------------------------------------------------------
(* _to_zen_katakana *)

ShiftCharNever(c) == c

ShiftChar(c) ==
    IF HIRA_FIRST <= c /\ c <= HIRA_LAST THEN c + KATA_SHIFT ELSE c

\* without the None test str(None) is the text "None"
to_zen_katakanaOfNone(str) ==
    LET t == NFKC(IF str = None THEN << 78, 111, 110, 101 >> ELSE str)
    IN  [k \in 1..Len(t) |-> ShiftChar(t[k])]

to_zen_katakana(str) ==
    IF str = None THEN None
    ELSE LET t == NFKC(str) IN [k \in 1..Len(t) |-> ShiftChar(t[k])]

-----------------------------------------------------------------------------
(* _kata_to_romaji: the helpers and one iteration of the scan *)

Vowels == << L.a, L.i, L.u, L.e, L.o >>

double_consonant(roma_next) ==
    IF roma_next = << >> THEN << >>
    ELSE IF StartsWith(roma_next, << L.c, L.h >>) THEN << L.c >>
    ELSE IF StartsWith(roma_next, << L.s, L.h >>) THEN << L.s >>
    ELSE IF StartsWith(roma_next, << L.j >>) THEN << L.j >>
    ELSE IF StartsWith(roma_next, << L.t, L.s >>) THEN << L.t >>
    ELSE << roma_next[1] >>

\* a long mark without a vowel before it kept as it is
prolongKeepsMark(prev_out) ==
    IF prev_out # << >> /\ prev_out[Len(prev_out)] \in { L.a, L.i, L.u, L.e, L.o }
    THEN << prev_out[Len(prev_out)] >> ELSE << LongMark >>

\* the first of a, i, u, e, o that prev ends with
prolong(prev_out) ==
    IF prev_out = << >> THEN << >>
    ELSE LET hits == { k \in 1..Len(Vowels) : EndsWith(prev_out, Vowels[k]) }
         IN  IF hits = {} THEN << >>
             ELSE << Vowels[CHOOSE k \in hits : \A m \in hits : k <= m] >>

\* line 117: the long-vowel rule reads the concatenation of all fragments
LongFragmentOfLast(r) == prolong(IF r = << >> THEN << >> ELSE r[Len(r)])

LongFragment(r) == prolong(JoinFrags(r))

\* line 134: a katakana character without a usable mapping is kept
UnknownFragmentDropped(ch) == << >>

UnknownFragment(ch) == << ch >>

\* the range test without its lower end
is_katakanaNoLowerEnd(ch) == ch <= KATA_LAST \/ ch = LongMark

is_katakana(ch) == (KATA_FIRST <= ch /\ ch <= KATA_LAST) \/ ch = LongMark

\* lines 109-112: the romanisation of what follows the small tsu at i
TsuNextMonoOnly(str, k, dg, mn) == DictGet(mn, << At(str, k + 1) >>, << >>)

TsuNext(str, k, dg, mn) ==
    LET two == Slice(str, k + 1, k + 3)
        d   == IF Len(two) = 2 THEN DictGet(dg, two, None) ELSE None
    IN  IF d = None THEN DictGet(mn, << At(str, k + 1) >>, << >>) ELSE d

\* lines 126-129: the romanisation of what follows the moraic nasal at i;
\* the variant reads the character before the cursor instead
NasalNextBehind(str, k, dg, mn) ==
    DictGet(mn, IF k >= 1 THEN << At(str, k - 1) >> ELSE << >>, << >>)

NasalNext(str, k, dg, mn) ==
    LET nxt == IF k + 1 < Len(str) THEN << At(str, k + 1) >> ELSE << >>
        d   == IF k + 2 < Len(str)
               THEN DictGet(dg, Slice(str, k + 1, k + 3), None) ELSE None
    IN  IF d = None THEN DictGet(mn, nxt, << >>) ELSE d

NasalFragmentNoY(nxt_roma) ==
    IF Slice(nxt_roma, 0, 1) \in { << L.a >>, << L.i >>, << L.u >>, << L.e >>, << L.o >> }
    THEN << L.n, L.apos >> ELSE << L.n >>

NasalTriggers == { << L.a >>, << L.i >>, << L.u >>, << L.e >>, << L.o >>, << L.y >> }

NasalFragment(nxt_roma) ==
    IF Slice(nxt_roma, 0, 1) \in NasalTriggers THEN << L.n, L.apos >> ELSE << L.n >>

\* line 120
DigraphMatchesShort(str, k, dg) ==
    k + 2 < Len(str) /\ Slice(str, k, k + 2) \in DOMAIN dg

\* without the length test a shorter key matches at the end of the text
DigraphMatchesNoLen(str, k, dg) == Slice(str, k, k + 2) \in DOMAIN dg

DigraphMatches(str, k, dg) ==
    LET two == Slice(str, k, k + 2) IN Len(two) = 2 /\ two \in DOMAIN dg

\* line 107, tested before the digraph and mono lookups; the variant tests
\* it after them
TsuRuleAfterLookups(str, k, dg, mn) ==
    /\ At(str, k) = SmallTsu
    /\ ~ DigraphMatches(str, k, dg)
    /\ << SmallTsu >> \notin DOMAIN mn

TsuRuleApplies(str, k, dg, mn) == At(str, k) = SmallTsu

\* `if roma:` (line 124): a missing key and an empty value are both falsy
Truthy(roma) == roma # None /\ roma # << >>

\* One iteration of the while loop (lines 99-135) at cursor k with the
\* fragments r emitted so far: the fragments appended (at most one), the
\* advance of the cursor, the rule that fired, the number of dict accesses
\* and whether a lookup raised.
ScanStep(str, k, r, dg, mn) ==
    LET ch == At(str, k) IN
    IF ~ is_katakana(ch)
    THEN [add |-> << << ch >> >>, adv |-> 1, rule |-> "passthrough", gets |-> 0,
          raised |-> FALSE]
    ELSE IF TsuRuleApplies(str, k, dg, mn)
    THEN IF k + 1 < Len(str)
         THEN LET rn == TsuNext(str, k, dg, mn) IN
              [add |-> IF rn = KeyError THEN << >> ELSE << double_consonant(rn) >>,
               adv |-> 1, rule |-> "tsu", gets |-> 1, raised |-> rn = KeyError]
         ELSE [add |-> << >>, adv |-> 1, rule |-> "tsu", gets |-> 0,
               raised |-> FALSE]
    ELSE IF ch = LongMark
    THEN [add |-> << LongFragment(r) >>, adv |-> 1, rule |-> "long",
          gets |-> 0, raised |-> FALSE]
    ELSE IF DigraphMatches(str, k, dg)
    THEN LET v == DictIndex(dg, Slice(str, k, k + 2)) IN
         [add |-> IF v = KeyError THEN << >> ELSE << v >>, adv |-> 2,
          rule |-> "digraph", gets |-> 1, raised |-> v = KeyError]
    ELSE LET roma == DictGet(mn, << ch >>, None) IN
         IF roma = KeyError
         THEN [add |-> << >>, adv |-> 1, rule |-> "mono", gets |-> 1,
               raised |-> TRUE]
         ELSE IF Truthy(roma)
         THEN IF ch = MoraicN
              THEN LET nr == NasalNext(str, k, dg, mn) IN
                   [add |-> IF nr = KeyError THEN << >> ELSE << NasalFragment(nr) >>,
                    adv |-> 1, rule |-> "nasal", gets |-> 2,
                    raised |-> nr = KeyError]
              ELSE [add |-> << roma >>, adv |-> 1, rule |-> "mono", gets |-> 1,
                    raised |-> FALSE]
         ELSE [add |-> << UnknownFragment(ch) >>, adv |-> 1, rule |-> "unknown", gets |-> 1,
               raised |-> FALSE]

\* lines 137-139
Finalize(r) == Capitalize(Lower(RemoveHyphens(JoinFrags(r))))

-----------------------------------------------------------------------------
(* Inputs *)

SeqsUpTo(S, n) == UNION { [1..k -> S] : k \in 0..n }

\* characters of the texts handed to _kata_to_romaji
Alphabet ==
    { Ch.KA, Ch.KI, Ch.YAs, SmallTsu, LongMark, MoraicN, Ch.A,
      Hyphen, Ch.fwHYPHEN, Ch.LatA, Ch.hKA }

\* characters of the texts handed to _to_zen_katakana alone
NormAlphabet ==
    { Ch.hA, Ch.hKA, Ch.hWA, Ch.DAKU, Ch.hwKA, Ch.hwDAKU, Ch.KA, Ch.fwHYPHEN,
      Ch.LatA }

Texts == SeqsUpTo(Alphabet, MaxLen) \cup { None }
NormTexts == SeqsUpTo(NormAlphabet, MaxLen) \cup { None }

EmptyDict == [ x \in {} |-> << >> ]

\* the "digraphs" and "mono" tables of romaji_mapping.json
MoraMaps ==
    << [ digraphs |-> EmptyDict, mono |-> EmptyDict ],
       [ digraphs |-> EmptyDict,
         mono |-> (<< Ch.KA >> :> << L.k, L.a >>) ],
       [ digraphs |-> EmptyDict,
         mono |-> (<< MoraicN >> :> << L.n >>) @@ (<< Ch.A >> :> << L.a >>) ],
       [ digraphs |-> (<< Ch.KI, Ch.YAs >> :> << L.k, L.y, L.a >>),
         mono |-> (<< Ch.KI >> :> << L.k, L.i >>) @@ (<< Ch.YAs >> :> << L.y, L.a >>) ],
       [ digraphs |-> (<< Ch.KI, Ch.YAs >> :> << L.c, L.h, L.a >>)
                      @@ (<< Ch.KA, Ch.A >> :> << L.t, L.s, L.a >>),
         mono |-> (<< Ch.A >> :> << L.a >>) @@ (<< Ch.KA >> :> << L.k, L.a >>)
                  @@ (<< Ch.KI >> :> << L.s, L.h, L.i >>)
                  @@ (<< Ch.YAs >> :> << L.y, L.a >>)
                  @@ (<< MoraicN >> :> << L.n >>)
                  @@ (<< LongMark >> :> << Hyphen >>) ],
       [ digraphs |-> (<< Ch.KI, Ch.YAs >> :> << >>)
                      @@ (<< SmallTsu, Ch.KA >> :> << L.t, L.s, L.u >>)
                      @@ (<< MoraicN, Ch.A >> :> << L.n, L.n, L.a >>)
                      @@ (<< Ch.LatA, Ch.KA >> :> << L.j, L.a >>)
                      @@ (<< Ch.A >> :> << L.a, L.a >>),
         mono |-> (<< Ch.KA >> :> << L.K, Hyphen, L.a >>)
                  @@ (<< MoraicN >> :> << >>)
                  @@ (<< SmallTsu >> :> << L.j, L.u >>)
                  @@ (<< Ch.A >> :> << L.a >>) ] >>

-----------------------------------------------------------------------------
(* The state machine *)

Init ==
    /\ call \in { "normalize", "transliterate" }
    /\ \/ /\ call = "normalize"
          /\ text \in NormTexts
          /\ digraphs = EmptyDict
          /\ mono = EmptyDict
       \/ /\ call = "transliterate"
          /\ text \in Texts
          /\ \E m \in 1..Len(MoraMaps) :
                /\ digraphs = MoraMaps[m].digraphs
                /\ mono = MoraMaps[m].mono
    /\ s = << >>
    /\ i = 0
    /\ res = << >>
    /\ pc = "start"
    /\ result = None
    /\ prev = None
    /\ lookups = 0
    /\ iters = 0
    /\ frames = << >>
    /\ current_plugin = None
    /\ plugins = {}
    /\ mounted = << >>
    /\ unmounts = << >>
    /\ ops = 0

\* _to_zen_katakana(text)
Normalize ==
    /\ call = "normalize"
    /\ pc = "start"
    /\ result' = to_zen_katakana(text)
    /\ pc' = "done"
    /\ UNCHANGED <<call, text, digraphs, mono, s, i, res, prev, lookups, iters>>
    /\ UNCHANGED beside

\* _to_zen_katakana applied to its own result (the pipeline normalises the
\* kana cell in place, lines 215-224, and _kata_to_romaji normalises the
\* cell's value again, line 81)
NormalizeAgain ==
    /\ call = "normalize"
    /\ pc = "done"
    /\ prev' = result
    /\ result' = to_zen_katakana(result)
    /\ pc' = "done2"
    /\ UNCHANGED <<call, text, digraphs, mono, s, i, res, lookups, iters>>
    /\ UNCHANGED beside

\* _kata_to_romaji, lines 79-81 and 97-98
Enter ==
    /\ call = "transliterate"
    /\ pc = "start"
    /\ IF text = None
       THEN /\ result' = None
            /\ pc' = "done"
            /\ UNCHANGED <<s, i, res>>
       ELSE /\ s' = to_zen_katakana(text)
            /\ res' = << >>
            /\ i' = 0
            /\ pc' = "scan"
            /\ UNCHANGED result
    /\ UNCHANGED <<call, text, digraphs, mono, prev, lookups, iters>>
    /\ UNCHANGED beside

\* one iteration of the while loop, lines 99-135
Step ==
    /\ pc = "scan"
    /\ i < Len(s)
    /\ iters' = iters + 1
    /\ LET st == ScanStep(s, i, res, digraphs, mono) IN
       /\ lookups' = lookups + st.gets
       /\ IF st.raised
          THEN /\ pc' = "raised"
               /\ UNCHANGED <<i, res>>
          ELSE /\ res' = res \o st.add
               /\ i' = i + st.adv
               /\ pc' = "scan"
    /\ UNCHANGED <<call, text, digraphs, mono, s, result, prev>>
    /\ UNCHANGED beside

\* loop exit and lines 137-139
Finish ==
    /\ pc = "scan"
    /\ ~ (i < Len(s))
    /\ result' = Finalize(res)
    /\ pc' = "done"
    /\ UNCHANGED <<call, text, digraphs, mono, s, i, res, prev, lookups, iters>>
    /\ UNCHANGED beside

Next == Normalize \/ NormalizeAgain \/ Enter \/ Step \/ Finish

Spec == Init /\ [][Next]_vars

-----------------------------------------------------------------------------
(* Properties *)

IsString(x) == x # None /\ x # KeyError /\ \A k \in 1..Len(x) : x[k] >= 0

TransDone == call = "transliterate" /\ pc = "done" /\ text # None

AtCursor(ch) == pc = "scan" /\ i < Len(s) /\ At(s, i) = ch

\* the text before lower() and capitalize()
Stripped == RemoveHyphens(JoinFrags(res))

\* C1: normalisation is idempotent: normalising an already normalised text
\* returns it unchanged.
C1_Idempotent == (call = "normalize" /\ pc = "done2") => result = prev

\* C2 (as stated): a non-empty result of a non-empty text starts with an
\* uppercase character and has no uppercase character after the first.
C2_FirstIsUppercase ==
    (TransDone /\ text # << >> /\ result # << >>) =>
        /\ IsUpper(result[1])
        /\ \A k \in 2..Len(result) : ~ IsUpper(result[k])

\* C2 (amended): with ASCII fragments, a non-empty result of a non-empty text
\* never starts with a lowercase ASCII letter (a first letter is uppercase, a
\* caseless first character stays as it is), and no uppercase ASCII letter
\* follows the first character.
C2_Capitalized ==
    (TransDone /\ text # << >> /\ result # << >>) =>
        /\ ~ IsLower(result[1])
        /\ (IsLower(LowerChar(Stripped[1])) => IsUpper(result[1]))
        /\ \A k \in 2..Len(result) : ~ IsUpper(result[k])

C2_Witness ==
    /\ TransDone
    /\ Len(result) >= 2
    /\ IsLower(Stripped[1]) /\ IsUpper(result[1])
    /\ IsUpper(Stripped[2]) /\ IsLower(result[2])

\* C3: the string returned by transliterate never contains "-", whatever the
\* text and the maps' values contain.
C3_NoHyphen == TransDone => Hyphen \notin Range(result)

C3_Witness ==
    /\ TransDone
    /\ Ch.fwHYPHEN \in Range(text)
    /\ \E k \in 1..Len(res) : Len(res[k]) >= 2 /\ Hyphen \in Range(res[k])
    /\ result # << >>

\* C4: at the long-vowel mark the scan appends the vowel that the
\* concatenation of all fragments emitted so far ends with (nothing when it
\* ends otherwise or is empty) and moves the cursor by 1; with mono =
\* {KA: "ka"} the text KA, long mark gives "Kaa".
C4_Expected ==
    LET out == JoinFrags(res) IN
    IF out # << >> /\ out[Len(out)] \in { L.a, L.i, L.u, L.e, L.o }
    THEN << out[Len(out)] >> ELSE << >>

C4_LongVowel ==
    /\ [][ AtCursor(LongMark) =>
             /\ i' = i + 1
             /\ pc' = "scan"
             /\ res' = Append(res, C4_Expected) ]_vars
    /\ [] ( ( TransDone /\ text = << Ch.KA, LongMark >> /\ digraphs = EmptyDict
              /\ mono = (<< Ch.KA >> :> << L.k, L.a >>) )
            => result = << L.K, L.a, L.a >> )

\* the fragment before the long mark is empty, the one before it ends in "a"
C4_Witness ==
    /\ pc = "scan" /\ i >= 3 /\ At(s, i - 1) = LongMark
    /\ Len(res) = 3
    /\ res[1] = << L.k, L.a >> /\ res[2] = << >> /\ res[3] = << L.a >>

\* C5: at a small tsu with a following character the scan resolves the next
\* fragment (digraph of the two following characters when both exist and
\* are a key, else mono of the next character, else empty), appends its
\* doubling letter (c for ch, s for sh, j for j, t for ts, else its first
\* character, nothing when empty), appends nothing when the small tsu is
\* last, and moves the cursor by exactly 1; with mono = {KA: "ka"} the text
\* small tsu, KA gives "Kka".
C5_NextFragment ==
    IF i + 2 < Len(s) /\ << At(s, i + 1), At(s, i + 2) >> \in DOMAIN digraphs
    THEN digraphs[<< At(s, i + 1), At(s, i + 2) >>]
    ELSE IF i + 1 < Len(s) /\ << At(s, i + 1) >> \in DOMAIN mono
    THEN mono[<< At(s, i + 1) >>]
    ELSE << >>

C5_Doubling(frag) ==
    IF frag = << >> THEN << >>
    ELSE IF Len(frag) >= 2 /\ frag[1] = L.c /\ frag[2] = L.h THEN << L.c >>
    ELSE IF Len(frag) >= 2 /\ frag[1] = L.s /\ frag[2] = L.h THEN << L.s >>
    ELSE IF frag[1] = L.j THEN << L.j >>
    ELSE IF Len(frag) >= 2 /\ frag[1] = L.t /\ frag[2] = L.s THEN << L.t >>
    ELSE << frag[1] >>

C5_Gemination ==
    /\ [][ AtCursor(SmallTsu) =>
             /\ i' = i + 1
             /\ pc' = "scan"
             /\ JoinFrags(res') = JoinFrags(res) \o C5_Doubling(C5_NextFragment)
             /\ Len(JoinFrags(res')) <= Len(JoinFrags(res)) + 1 ]_vars
    /\ [] ( ( TransDone /\ text = << SmallTsu, Ch.KA >> /\ digraphs = EmptyDict
              /\ mono = (<< Ch.KA >> :> << L.k, L.a >>) )
            => result = << L.K, L.k, L.a >> )

\* a small tsu before a digraph was doubled from the digraph's value and the
\* digraph is still to be scanned
C5_Witness ==
    /\ pc = "scan" /\ i >= 1 /\ At(s, i - 1) = SmallTsu
    /\ i + 1 < Len(s)
    /\ << At(s, i), At(s, i + 1) >> \in DOMAIN digraphs
    /\ digraphs[<< At(s, i), At(s, i + 1) >>] = << L.c, L.h, L.a >>
    /\ res = << << L.c >> >>

\* the romanisation resolved for what follows the cursor: digraph of the two
\* following characters first, then mono of the next one, else empty
C6_NextFragment ==
    IF i + 2 < Len(s) /\ << At(s, i + 1), At(s, i + 2) >> \in DOMAIN digraphs
    THEN digraphs[<< At(s, i + 1), At(s, i + 2) >>]
    ELSE IF i + 1 < Len(s) /\ << At(s, i + 1) >> \in DOMAIN mono
    THEN mono[<< At(s, i + 1) >>]
    ELSE << >>

C6_Expected ==
    IF C6_NextFragment # << >>
       /\ C6_NextFragment[1] \in { L.a, L.i, L.u, L.e, L.o, L.y }
    THEN << L.n, L.apos >> ELSE << L.n >>

\* C6 (as stated): whenever the moraic nasal is a key of mono, the fragment
\* emitted for it is "n'" before a vowel or y and "n" otherwise, and the
\* cursor moves by 1.
C6_NasalWhenKey ==
    [][ (AtCursor(MoraicN) /\ << MoraicN >> \in DOMAIN mono) =>
          /\ i' = i + 1
          /\ res' = Append(res, C6_Expected) ]_vars

\* C6 (amended): when the moraic nasal is a key of mono with a non-empty
\* value and no digraph key starts at the cursor, the fragment emitted for
\* it is "n'" if the romanisation resolved for what follows starts with a,
\* i, u, e, o or y and "n" otherwise (also when it is last), and the cursor
\* moves by 1; with mono = {N: "n", A: "a"} the text N, A gives "N'a" and
\* N alone gives "N".
C6_Nasal ==
    /\ [][ ( /\ AtCursor(MoraicN)
             /\ << MoraicN >> \in DOMAIN mono
             /\ mono[<< MoraicN >>] # << >>
             /\ ~ ( i + 1 < Len(s)
                    /\ << MoraicN, At(s, i + 1) >> \in DOMAIN digraphs ) ) =>
             /\ i' = i + 1
             /\ pc' = "scan"
             /\ res' = Append(res, C6_Expected) ]_vars
    /\ [] ( ( TransDone /\ digraphs = EmptyDict
              /\ mono = (<< MoraicN >> :> << L.n >>) @@ (<< Ch.A >> :> << L.a >>) )
            => /\ (text = << MoraicN, Ch.A >> => result = << L.N, L.apos, L.a >>)
               /\ (text = << MoraicN >> => result = << L.N >>) )

C6_Witness ==
    /\ pc = "scan" /\ i >= 1 /\ At(s, i - 1) = MoraicN
    /\ i < Len(s) /\ At(s, i) = Ch.YAs
    /\ << Ch.YAs >> \in DOMAIN mono
    /\ mono[<< Ch.YAs >>] = << L.y, L.a >>
    /\ Len(res) >= 1
    /\ res[Len(res)] = << L.n, L.apos >>

\* C7: at a katakana character other than the small tsu and the long mark
\* whose 2-character substring is a key of digraphs the scan emits the
\* digraph's value and moves the cursor by 2, also when mono maps the
\* characters; digraphs = {KI YA: "kya"}, mono = {KI: "ki", YA: "ya"}:
\* the text KI, small YA gives "Kya".
C7_DigraphPriority ==
    /\ [][ ( /\ pc = "scan" /\ i + 1 < Len(s)
             /\ is_katakana(At(s, i))
             /\ At(s, i) \notin { SmallTsu, LongMark }
             /\ << At(s, i), At(s, i + 1) >> \in DOMAIN digraphs ) =>
             /\ i' = i + 2
             /\ pc' = "scan"
             /\ res' = Append(res, digraphs[<< At(s, i), At(s, i + 1) >>]) ]_vars
    /\ [] ( ( TransDone /\ text = << Ch.KI, Ch.YAs >>
              /\ digraphs = (<< Ch.KI, Ch.YAs >> :> << L.k, L.y, L.a >>)
              /\ mono = (<< Ch.KI >> :> << L.k, L.i >>)
                        @@ (<< Ch.YAs >> :> << L.y, L.a >>) )
            => result = << L.K, L.y, L.a >> )

C7_Witness ==
    /\ TransDone /\ text = << Ch.KI, Ch.YAs >>
    /\ << Ch.KI >> \in DOMAIN mono /\ << Ch.YAs >> \in DOMAIN mono
    /\ res = << << L.k, L.y, L.a >> >>
    /\ result = << L.K, L.y, L.a >>

\* C8: for every text and every pair of maps transliterate never raises: no
\* lookup fails on a missing key (the scan stays inside the text and every
\* fragment it emits is a string), and what it returns is a string.
C8_Total ==
    /\ pc \in { "start", "scan", "done", "done2" }
    /\ pc = "scan" => /\ i <= Len(s)
                      /\ \A k \in 1..Len(res) : IsString(res[k])
    /\ TransDone => IsString(result)

\* lookups that missed in empty maps, and a result all the same
C8_Witness ==
    /\ TransDone
    /\ digraphs = EmptyDict /\ mono = EmptyDict
    /\ lookups >= 3
    /\ Len(result) = 2

\* C9: an absent text gives an absent result from both functions, without
\* any lookup in the maps; every other text gives a string.
C9_Absence ==
    /\ (call = "normalize" /\ pc = "done") =>
          /\ (text = None => result = None)
          /\ (text # None => IsString(result))
    /\ (call = "transliterate" /\ pc = "done") =>
          /\ (text = None => result = None /\ lookups = 0 /\ res = << >>)
          /\ (text # None => IsString(result))

C9_Witness ==
    /\ call = "transliterate" /\ pc = "done" /\ text = None
    /\ result = None /\ mono # EmptyDict /\ digraphs # EmptyDict

\* C10: a katakana character other than the small tsu and the long mark
\* that starts no matching digraph and has no entry in mono is emitted as
\* itself with the cursor moving by 1; a text of one such character is
\* returned unchanged.
C10_UnknownPassthrough ==
    /\ [][ ( /\ pc = "scan" /\ i < Len(s)
             /\ is_katakana(At(s, i))
             /\ At(s, i) \notin { SmallTsu, LongMark }
             /\ ~ ( i + 1 < Len(s)
                    /\ << At(s, i), At(s, i + 1) >> \in DOMAIN digraphs )
             /\ << At(s, i) >> \notin DOMAIN mono ) =>
             /\ i' = i + 1
             /\ pc' = "scan"
             /\ res' = Append(res, << At(s, i) >>) ]_vars
    /\ [] ( ( /\ TransDone /\ Len(text) = 1
              /\ is_katakana(text[1])
              /\ text[1] \notin { SmallTsu, LongMark }
              /\ << text[1] >> \notin DOMAIN mono )
            => result = text )

C10_Witness ==
    /\ TransDone /\ text = << Ch.A >>
    /\ << Ch.A >> \notin DOMAIN mono /\ digraphs # EmptyDict
    /\ result = << Ch.A >>

\* C11: the result of normalisation is the NFKC form of the text with every
\* code point in U+3041..U+3096 replaced by the one 0x60 higher and every
\* other character unchanged, in the same order and of the same length; no
\* code point in U+3041..U+3096 remains, and hiragana A becomes katakana A.
C11_HiraganaShift ==
    (call = "normalize" /\ pc = "done" /\ text # None) =>
        LET t == NFKC(text) IN
        /\ Len(result) = Len(t)
        /\ \A k \in 1..Len(t) :
              /\ (12353 <= t[k] /\ t[k] <= 12438) => result[k] = t[k] + 96
              /\ ~ (12353 <= t[k] /\ t[k] <= 12438) => result[k] = t[k]
        /\ \A k \in 1..Len(result) : ~ (12353 <= result[k] /\ result[k] <= 12438)
        /\ (text = << Ch.hA >> => result = << Ch.A >>)

\* a hiragana composed by NFKC and shifted, beside a character left alone
C11_Witness ==
    /\ call = "normalize" /\ pc = "done"
    /\ text = << Ch.hKA, Ch.DAKU, Ch.LatA >>
    /\ result = << Ch.GA, Ch.LatA >>

\* C12: at a character of the normalised text outside U+30A0..U+30FF the
\* scan appends that character as it is and moves the cursor by 1, without
\* any lookup in digraphs or mono, also when digraphs has a key that begins
\* with it.
C12_NonKatakanaPassthrough ==
    [][ ( /\ pc = "scan" /\ i < Len(s)
          /\ ~ (12448 <= At(s, i) /\ At(s, i) <= 12543) ) =>
          /\ res' = Append(res, << At(s, i) >>)
          /\ i' = i + 1
          /\ pc' = "scan"
          /\ lookups' = lookups ]_vars

\* a Latin letter was passed through although a digraph key starts with it
\* and continues with the next character
C12_Witness ==
    /\ pc = "scan" /\ i = 1 /\ i < Len(s)
    /\ At(s, 0) = Ch.LatA
    /\ << Ch.LatA, At(s, i) >> \in DOMAIN digraphs
    /\ res = << << Ch.LatA >> >>
    /\ lookups = 0

\* every value of both maps is a non-empty string of lowercase ASCII letters
C13_LowercaseMaps ==
    \A d \in { digraphs, mono } : \A key \in DOMAIN d :
        d[key] # << >> /\ \A k \in 1..Len(d[key]) : IsLower(d[key][k])

\* C13 (as stated): with such maps every result consists of lowercase ASCII
\* letters and apostrophes only, except for a capitalised first character.
C13_OnlyLettersAndApostrophes ==
    (TransDone /\ C13_LowercaseMaps) =>
        \A k \in 1..Len(result) :
            \/ IsLower(result[k])
            \/ result[k] = L.apos
            \/ (k = 1 /\ IsUpper(result[k]))

\* the characters of the normalised text that the scan copies: those outside
\* the katakana block other than "-", and the katakana other than the small
\* tsu and the long mark that mono does not map
C13_Copied ==
    { c \in Range(s) :
        \/ ~ is_katakana(c) /\ c # Hyphen
        \/ is_katakana(c) /\ c \notin { SmallTsu, LongMark }
                          /\ << c >> \notin DOMAIN mono }

\* C13 (amended): with such maps every character of a result is a lowercase
\* ASCII letter, an apostrophe or the lower-cased form of a copied character
\* of the normalised text, except that the first character is capitalised.
C13_OutputAlphabet ==
    (TransDone /\ C13_LowercaseMaps) =>
        \A k \in 1..Len(result) :
            LET c == result[k] IN
            /\ (k = 1 => ~ IsLower(c))
            /\ (k > 1 => ~ IsUpper(c))
            /\ \/ IsLower(LowerChar(c))
               \/ c = L.apos
               \/ \E x \in C13_Copied : c = LowerChar(x)

C13_Witness ==
    /\ TransDone /\ C13_LowercaseMaps
    /\ mono # EmptyDict
    /\ Len(result) = 4
    /\ result[1] = L.N /\ result[2] = L.apos /\ result[3] = L.a
    /\ result[4] = Ch.KA

\* C15 (as stated): when the fragment emitted just before a long-vowel mark
\* is empty, the long-vowel rule emits nothing, whatever was emitted earlier.
C15_EmptyBeforeLongMark ==
    [][ (AtCursor(LongMark) /\ Len(res) >= 1 /\ res[Len(res)] = << >>) =>
          res' = Append(res, << >>) ]_vars

\* C15 (amended): when the fragment emitted just before a long-vowel mark is
\* empty, the long-vowel rule skips it: it emits the vowel that the
\* concatenation of the earlier fragments ends with, and nothing only when
\* that concatenation is empty or ends with no vowel.
C15_LongMarkSkipsEmpty ==
    [][ (AtCursor(LongMark) /\ Len(res) >= 1 /\ res[Len(res)] = << >>) =>
          LET before == JoinFrags(SubSeq(res, 1, Len(res) - 1))
              vowel  == before # << >>
                        /\ before[Len(before)] \in { L.a, L.i, L.u, L.e, L.o }
          IN  /\ i' = i + 1
              /\ Len(res') = Len(res) + 1
              /\ SubSeq(res', 1, Len(res)) = res
              /\ vowel => res'[Len(res')] = << before[Len(before)] >>
              /\ ~ vowel => res'[Len(res')] = << >> ]_vars

\* a vowel was repeated across the empty fragment of a small tsu
C15_Witness ==
    /\ pc = "scan" /\ i >= 2
    /\ At(s, i - 1) = LongMark /\ At(s, i - 2) = SmallTsu
    /\ Len(res) >= 3
    /\ res[Len(res) - 1] = << >>
    /\ res[Len(res)] # << >>

\* C16: away from the long-vowel mark, the fragment emitted and the cursor
\* advance at a position depend only on the characters from the cursor on:
\* they are those of a scan that starts on that remainder with nothing
\* emitted, so two runs with the same remainder emit and advance alike.
C16_Locality ==
    [][ (pc = "scan" /\ i < Len(s) /\ At(s, i) # LongMark) =>
          LET alone == ScanStep(Slice(s, i, Len(s)), 0, << >>, digraphs, mono)
          IN  /\ pc' = "scan"
              /\ res' = res \o alone.add
              /\ i' = i + alone.adv ]_vars

\* a moraic nasal in the middle of a text, after a non-empty fragment, was
\* marked because of what follows it
C16_Witness ==
    /\ pc = "scan" /\ i = 2 /\ Len(s) = 3
    /\ At(s, 1) = MoraicN
    /\ Len(res) = 2
    /\ res[1] # << >>
    /\ res[2] = << L.n, L.apos >>

\* the rule that applies first at the cursor, in the order non-katakana
\* passthrough, small tsu, long-vowel mark, digraph, mono (a non-empty
\* mapping), unknown
C17_FirstRule ==
    LET ch == At(s, i) IN
    IF ~ (12448 <= ch /\ ch <= 12543) THEN "passthrough"
    ELSE IF ch = SmallTsu THEN "tsu"
    ELSE IF ch = LongMark THEN "long"
    ELSE IF i + 1 < Len(s) /\ << ch, At(s, i + 1) >> \in DOMAIN digraphs
    THEN "digraph"
    ELSE IF << ch >> \in DOMAIN mono /\ mono[<< ch >>] # << >> THEN "mono"
    ELSE "unknown"

\* what that rule emits
C17_Fragment ==
    LET ch == At(s, i)
        rule == C17_FirstRule
    IN  CASE rule = "passthrough" -> << ch >>
          [] rule = "tsu"     -> C5_Doubling(C5_NextFragment)
          [] rule = "long"    -> C4_Expected
          [] rule = "digraph" -> digraphs[<< ch, At(s, i + 1) >>]
          [] rule = "mono"    -> IF ch = MoraicN THEN C6_Expected
                                 ELSE mono[<< ch >>]
          [] rule = "unknown" -> << ch >>

\* C17: at every cursor position the output grows by the fragment of the
\* first applicable rule and by nothing else (at most one fragment); at the
\* small tsu and the long-vowel mark that is their own rule, also when
\* digraphs has a key starting with the character or mono maps it.
C17_RulePriority ==
    [][ (pc = "scan" /\ i < Len(s)) =>
          /\ pc' = "scan"
          /\ Len(res') <= Len(res) + 1
          /\ JoinFrags(res') = JoinFrags(res) \o C17_Fragment
          /\ i' = i + (IF C17_FirstRule = "digraph" THEN 2 ELSE 1) ]_vars

\* the small-tsu rule fired although a digraph key starts with the small tsu
\* and matches, and mono maps the small tsu
C17_Witness ==
    /\ pc = "scan" /\ i = 1 /\ i < Len(s)
    /\ At(s, 0) = SmallTsu
    /\ << SmallTsu, At(s, 1) >> \in DOMAIN digraphs
    /\ << SmallTsu >> \in DOMAIN mono
    /\ res = << << L.K >> >>

\* longest text of the calls whose termination is checked
MaxFairLen == 2

\* the calls of Init on the shorter texts
FairInit == Init /\ (text = None \/ Len(text) <= MaxFairLen)

\* the scheduling of a call: a Python call that is not blocked keeps running
FairSpec == FairInit /\ [][Next]_vars /\ WF_vars(Next)

\* C18: every iteration of the scan moves the cursor by exactly 1, or by
\* exactly 2 when a two-character digraph key matched inside the text; the
\* cursor never passes the end of the normalised text; the scan ends with
\* the cursor at the end after at most length-many iterations, and it does
\* end.
C18_ScanProgress ==
    /\ [][ (pc = "scan" /\ i < Len(s)) =>
             /\ iters' = iters + 1
             /\ \/ i' = i + 1
                \/ /\ i' = i + 2
                   /\ i + 2 <= Len(s)
                   /\ << At(s, i), At(s, i + 1) >> \in DOMAIN digraphs ]_vars
    /\ [] ( call = "transliterate" => (i <= Len(s) /\ iters <= i) )
    /\ [] ( TransDone => (i = Len(s) /\ iters <= Len(s)) )
    /\ <> ( pc \in { "done", "done2" } )

\* a scan of two characters that ended after one iteration, a digraph
C18_Witness ==
    /\ TransDone
    /\ Len(s) = 2 /\ i = 2 /\ iters = 1
    /\ s \in DOMAIN digraphs


-----------------------------------------------------------------------------
(* Concurrent invocations of _kata_to_romaji on shared mapping tables *)

\* _kata_to_romaji run alone from cursor k with the fragments r, lines 99-139
RECURSIVE ScanAlone(_, _, _, _, _)
ScanAlone(str, k, r, dg, mn) ==
    IF ~ (k < Len(str))
    THEN Finalize(r)
    ELSE LET st == ScanStep(str, k, r, dg, mn) IN
         IF st.raised
         THEN KeyError
         ELSE ScanAlone(str, k + st.adv, r \o st.add, dg, mn)

\* _kata_to_romaji(text, digraphs, mono) run alone, lines 78-139
kata_to_romaji(txt, dg, mn) ==
    IF txt = None
    THEN None
    ELSE ScanAlone(to_zen_katakana(txt), 0, << >>, dg, mn)

\* the invocations running at the same time
Procs == { 1, 2 }

\* longest text of a concurrent invocation
MaxConcLen == 2

\* characters of the texts of the concurrent invocations
ConcAlphabet == { Ch.KI, Ch.YAs, SmallTsu, LongMark }

ConcTexts == SeqsUpTo(ConcAlphabet, MaxConcLen) \cup { None }

\* the tables the concurrent invocations share
ConcMaps == { MoraMaps[4], MoraMaps[6] }

\* s, i and res are locals of the call: each invocation has its own
SlotShared(p) == 1

Slot(p) == p

InitConc ==
    /\ \E m \in ConcMaps :
          /\ digraphs = m.digraphs
          /\ mono = m.mono
    /\ frames \in [ Procs -> { [ text |-> t, pc |-> "start", result |-> None,
                                 s |-> << >>, i |-> 0, res |-> << >>,
                                 overlapped |-> FALSE ] : t \in ConcTexts } ]
    /\ call = "concurrent"
    /\ text = None
    /\ s = << >>
    /\ i = 0
    /\ res = << >>
    /\ pc = "idle"
    /\ result = None
    /\ prev = None
    /\ lookups = 0
    /\ iters = 0
    /\ current_plugin = None
    /\ plugins = {}
    /\ mounted = << >>
    /\ unmounts = << >>
    /\ ops = 0

apart == <<call, text, s, i, res, pc, result, prev, lookups, iters,
           current_plugin, plugins, mounted, unmounts, ops>>

\* lines 79-81 and 97-98 of invocation p
EnterConc(p) ==
    /\ frames[p].pc = "start"
    /\ IF frames[p].text = None
       THEN frames' = [ frames EXCEPT ![p].result = None, ![p].pc = "done" ]
       ELSE frames' = [ frames EXCEPT ![p].pc = "scan",
                                      ![Slot(p)].s = to_zen_katakana(frames[p].text),
                                      ![Slot(p)].res = << >>,
                                      ![Slot(p)].i = 0 ]
    /\ UNCHANGED <<digraphs, mono>>
    /\ UNCHANGED apart

\* one iteration of the while loop of invocation p, lines 99-135
StepConc(p) ==
    LET f == frames[Slot(p)]
        others == \E q \in Procs \ { p } : frames[q].pc = "scan"
    IN
    /\ frames[p].pc = "scan"
    /\ f.i < Len(f.s)
    /\ LET st == ScanStep(f.s, f.i, f.res, digraphs, mono) IN
       IF st.raised
       THEN frames' = [ frames EXCEPT ![p].pc = "raised" ]
       ELSE frames' = [ frames EXCEPT ![p].overlapped = @ \/ others,
                                      ![Slot(p)].res = f.res \o st.add,
                                      ![Slot(p)].i = f.i + st.adv ]
    /\ UNCHANGED <<digraphs, mono>>
    /\ UNCHANGED apart

\* loop exit and lines 137-139 of invocation p
FinishConc(p) ==
    LET f == frames[Slot(p)] IN
    /\ frames[p].pc = "scan"
    /\ ~ (f.i < Len(f.s))
    /\ frames' = [ frames EXCEPT ![p].result = Finalize(f.res), ![p].pc = "done" ]
    /\ UNCHANGED <<digraphs, mono>>
    /\ UNCHANGED apart

NextConc == \E p \in Procs : EnterConc(p) \/ StepConc(p) \/ FinishConc(p)

SpecConc == InitConc /\ [][NextConc]_vars

Locals(f) == << f.s, f.i, f.res >>

\* C14: however the scan steps of two invocations sharing the tables are
\* interleaved, each invocation returns what it returns when run alone on
\* its text, no step changes the tables, and a step changes the cursor and
\* fragments of one invocation only.
C14_Purity ==
    /\ [] ( \A p \in Procs :
              frames[p].pc = "done" =>
                 frames[p].result = kata_to_romaji(frames[p].text, digraphs, mono) )
    /\ [] ( \A p \in Procs : frames[p].pc # "raised" )
    /\ [][ digraphs' = digraphs /\ mono' = mono ]_vars
    /\ [][ \A p \in Procs :
             Locals(frames'[p]) # Locals(frames[p]) =>
                \A q \in Procs \ { p } : frames'[q] = frames[q] ]_vars

\* two invocations on different two-character texts whose scans overlapped,
\* both returned
C14_Witness ==
    /\ call = "concurrent"
    /\ \A p \in Procs :
          /\ frames[p].pc = "done"
          /\ frames[p].text # None
          /\ Len(frames[p].text) = 2
          /\ frames[p].overlapped
          /\ frames[p].result # << >>
    /\ frames[1].result # frames[2].result


-----------------------------------------------------------------------------
(* ShellApp: mounting and unmounting plugins (src/app_shell.py) *)

\* the plugin files of the plugins directory
Files == { 1, 2 }

\* number of switch_mode and reload_plugins operations followed
MaxOps == 4

\* reload_plugins makes new instances: the number of the next load
NextLoad ==
    LET made == { 0 } \cup { p[1] : p \in DOMAIN mounted } IN
    1 + (CHOOSE g \in made : \A h \in made : h <= g)

\* the instances made by one load of the files F
Instances(load, F) == { << load, k >> : k \in F }

\* current_plugin.unmount() when a plugin is current: the plugin is no
\* longer mounted, and one more unmount was called on it; an exception of
\* unmount is swallowed
AfterUnmount ==
    IF current_plugin # None
    THEN [ m |-> [ mounted EXCEPT ![current_plugin] = FALSE ],
           u |-> [ unmounts EXCEPT ![current_plugin] = @ + 1 ] ]
    ELSE [ m |-> mounted, u |-> unmounts ]

\* after ShellApp.__init__, whose reload_plugins loaded the files found
InitShell ==
    /\ current_plugin = None
    /\ \E F \in SUBSET Files : plugins = Instances(1, F)
    /\ mounted = [ p \in plugins |-> FALSE ]
    /\ unmounts = [ p \in plugins |-> 0 ]
    /\ ops = 0
    /\ call = "shell"
    /\ text = None
    /\ s = << >>
    /\ i = 0
    /\ res = << >>
    /\ pc = "idle"
    /\ result = None
    /\ prev = None
    /\ digraphs = EmptyDict
    /\ mono = EmptyDict
    /\ lookups = 0
    /\ iters = 0
    /\ frames = << >>

engine == <<call, text, s, i, res, pc, result, prev, digraphs, mono, lookups,
            iters, frames>>

\* ShellApp.switch_mode(plugin), for a plugin of the ribbon; plugin.mount
\* returns (ok) or raises
switch_mode(plugin, ok) ==
    /\ ops < MaxOps
    /\ plugin \in plugins
    /\ IF ok
       THEN /\ mounted' = [ AfterUnmount.m EXCEPT ![plugin] = TRUE ]
            /\ unmounts' = [ AfterUnmount.u EXCEPT ![plugin] = 0 ]
            /\ current_plugin' = plugin
       ELSE /\ mounted' = AfterUnmount.m
            /\ unmounts' = AfterUnmount.u
            /\ UNCHANGED current_plugin
    /\ ops' = ops + 1
    /\ UNCHANGED plugins
    /\ UNCHANGED engine

\* ShellApp.reload_plugins(), the files F loading
reload_plugins(F) ==
    /\ ops < MaxOps
    /\ current_plugin' = None
    /\ plugins' = Instances(NextLoad, F)
    /\ mounted' = [ p \in DOMAIN mounted \cup plugins' |->
                      IF p \in plugins' THEN FALSE ELSE AfterUnmount.m[p] ]
    /\ unmounts' = [ p \in DOMAIN unmounts \cup plugins' |->
                       IF p \in plugins' THEN 0 ELSE AfterUnmount.u[p] ]
    /\ ops' = ops + 1
    /\ UNCHANGED engine

NextShell ==
    \/ \E plugin \in plugins : \E ok \in BOOLEAN : switch_mode(plugin, ok)
    \/ \E F \in SUBSET Files : reload_plugins(F)

SpecShell == InitShell /\ [][NextShell]_vars

\* C19: after any sequence of switch_mode and reload_plugins, current_plugin
\* is None or a plugin whose mount completed and which was not unmounted
\* since; no plugin has had unmount called twice without a completed mount
\* in between; and no plugin other than the current one is mounted, so the
\* mounted plugin is unmounted before another plugin's mount is called.
C19_Lifecycle ==
    /\ current_plugin # None => mounted[current_plugin]
    /\ \A p \in DOMAIN unmounts : unmounts[p] <= 1
    /\ \A p \in DOMAIN mounted : mounted[p] => p = current_plugin

=============================================================================
